---- MODULE Spec2Model ----
(***************************************************************************)
(* LinkUpdater (link_updater_V2.py): a command-line run that validates its *)
(* arguments, walks a directory tree, and replaces one IP string by        *)
(* another in every file whose extension is in the configured set.         *)
(*                                                                         *)
(* A string is a sequence of one-character strings.  A file's content is a *)
(* sequence of bytes, written the same way: an ASCII byte is its           *)
(* character, BAD is a byte that is not valid UTF-8 (0xFF), CR and LF are  *)
(* the bytes 0x0D and 0x0A.                                                *)
(***************************************************************************)
EXTENDS Integers, Sequences, FiniteSets, TLC

VARIABLES
    directory,          \* what self.directory names: "missing", "file" or "dir"
    old_ip,             \* self.old_ip
    new_ip,             \* self.new_ip
    extensions,         \* self.extensions, after the normalisation of __init__
    backup,             \* self.backup
    dry_run,            \* self.dry_run
    files_processed,    \* self.files_processed
    files_modified,     \* self.files_modified
    replacements_made,  \* self.replacements_made
    disk,               \* the tree under the root: path -> bytes, or NoFile
    target_files,       \* the list find_target_files returned
    idx,                \* position of the for loop of run() in target_files
    pc,                 \* position of run(): start, discover, process, done, exit
    exit_code,          \* the process's exit status once it ended, else -1
    log,                \* the records handed to self.logger, in order
    disk0,              \* history: the tree when this invocation was constructed
    runNo               \* history: number of this invocation

vars == <<directory, old_ip, new_ip, extensions, backup, dry_run, files_processed,
          files_modified, replacements_made, disk, target_files, idx, pc,
          exit_code, log, disk0, runNo>>

-----------------------------------------------------------------------------
(* Bounds of the model. *)

\* longest file content of the rich file, in pieces (see Pieces)
MaxPieces == 3
\* number of invocations of the program on the same tree
MaxRuns == 2

-----------------------------------------------------------------------------
(* Characters and bytes. *)

LF == "\n"
CR == "\r"
BAD == "<FF>"
NoFile == "<absent>"

Digits == {"0", "1", "2", "3", "4", "5", "6", "7", "8", "9"}

\* str.lower() on one character
LowerChar(c) ==
    CASE c = "H" -> "h"
      [] c = "T" -> "t"
      [] c = "M" -> "m"
      [] c = "L" -> "l"
      [] c = "X" -> "x"
      [] c = "B" -> "b"
      [] c = "A" -> "a"
      [] c = "K" -> "k"
      [] OTHER -> c

\* str.lower()
Lower(s) == [i \in 1..Len(s) |-> LowerChar(s[i])]

\* s[i:j] in Python terms, 1-based and inclusive here
Slice(s, i, j) == IF i > j THEN <<>> ELSE SubSeq(s, i, j)

\* sub occurs in s at position i
OccursAt(s, sub, i) ==
    /\ i >= 1
    /\ i + Len(sub) - 1 <= Len(s)
    /\ \A k \in 1..Len(sub) : s[i + k - 1] = sub[k]

\* str.find(sub, from): the first position >= from where sub occurs, 0 if none
Find(s, sub, from) ==
    LET hits == {i \in from..(Len(s) - Len(sub) + 1) : OccursAt(s, sub, i)}
    IN  IF hits = {} THEN 0 ELSE CHOOSE i \in hits : \A j \in hits : i <= j

\* sub in s
Contains(s, sub) == Find(s, sub, 1) # 0

RECURSIVE ReplaceFrom(_, _, _, _)
\* str.replace on s[from:], for a non-empty old: left to right, non-overlapping
ReplaceFrom(s, old, new, from) ==
    LET i == Find(s, old, from)
    IN  IF i = 0
        THEN Slice(s, from, Len(s))
        ELSE Slice(s, from, i - 1) \o new \o ReplaceFrom(s, old, new, i + Len(old))

\* content.replace(self.old_ip, self.new_ip)
Replace(s, old, new) == ReplaceFrom(s, old, new, 1)

RECURSIVE CountFrom(_, _, _)
\* str.count on s[from:], for a non-empty sub: non-overlapping occurrences
CountFrom(s, sub, from) ==
    LET i == Find(s, sub, from)
    IN  IF i = 0 THEN 0 ELSE 1 + CountFrom(s, sub, i + Len(sub))

\* content.count(sub)
Count(s, sub) == CountFrom(s, sub, 1)

-----------------------------------------------------------------------------
(* Text-mode file I/O: open(path, 'r', encoding='utf-8', errors='ignore')   *)
(* and open(path, 'w', encoding='utf-8').                                   *)

\* errors='ignore': bytes that do not decode are dropped
DropUndecodable(bytes) == SelectSeq(bytes, LAMBDA c : c # BAD)

RECURSIVE UniversalNewlines(_)
\* newline=None on reading: "\r\n" and "\r" both become "\n"
UniversalNewlines(s) ==
    IF s = <<>> THEN <<>>
    ELSE IF Head(s) = CR
         THEN <<LF>> \o UniversalNewlines(
                  IF Len(s) >= 2 /\ s[2] = LF THEN Tail(Tail(s)) ELSE Tail(s))
         ELSE <<Head(s)>> \o UniversalNewlines(Tail(s))

\* f.read() of a file opened for reading as text
ReadText(bytes) == UniversalNewlines(DropUndecodable(bytes))

\* os.linesep of the platform the model runs on (POSIX)
os_linesep == <<LF>>

RECURSIVE WriteText(_)
\* f.write(content) of a file opened for writing as text: "\n" -> os.linesep
WriteText(s) ==
    IF s = <<>> THEN <<>>
    ELSE (IF Head(s) = LF THEN os_linesep ELSE <<Head(s)>>) \o WriteText(Tail(s))

-----------------------------------------------------------------------------
(* validate_inputs: the IP pattern r'^(?:[0-9]{1,3}\.){3}[0-9]{1,3}$'.      *)

\* the positions of the dots of s
DotPositions(s) == {i \in 1..Len(s) : s[i] = "."}

\* (?:[0-9]{1,3}\.){3}[0-9]{1,3} matches the whole of s
FourGroups(s) ==
    /\ \A i \in 1..Len(s) : s[i] \in Digits \cup {"."}
    /\ Cardinality(DotPositions(s)) = 3
    /\ LET cuts == DotPositions(s) \cup {0, Len(s) + 1}
       IN  \A a \in cuts : \A b \in cuts :
               (a < b /\ ~(\E c \in cuts : a < c /\ c < b))
                   => (b - a - 1 >= 1 /\ b - a - 1 <= 3)

\* re.match(ip_pattern, s): '$' matches at the end of the string and also just
\* before a newline that ends the string
MatchIP(s) ==
    \/ FourGroups(s)
    \/ (Len(s) >= 1 /\ s[Len(s)] = LF /\ FourGroups(Slice(s, 1, Len(s) - 1)))

\* the exception validate_inputs raises, or "ok"
validate_inputs(dir, old, new) ==
    IF dir = "missing" THEN "Directory does not exist"
    ELSE IF dir # "dir" THEN "Path is not a directory"
    ELSE IF ~MatchIP(old) THEN "Invalid old IP address format"
    ELSE IF ~MatchIP(new) THEN "Invalid new IP address format"
    ELSE IF old = new THEN "Old and new IP addresses are the same"
    ELSE "ok"

-----------------------------------------------------------------------------
(* Paths.  A path is [dir, name]: dir is the sequence of directory names    *)
(* below the root, name the file name.                                      *)

\* PurePath.suffix: the name from its last dot on, '' when that dot is the
\* first or the last character of the name or there is none
PathSuffix(name) ==
    LET dots == DotPositions(name)
        i == IF dots = {} THEN 0 ELSE CHOOSE d \in dots : \A e \in dots : e <= d
    IN  IF 1 < i /\ i < Len(name) THEN Slice(name, i, Len(name)) ELSE <<>>

\* PurePath.with_suffix(suffix)
with_suffix(p, suffix) ==
    LET old == PathSuffix(p.name)
    IN  [dir |-> p.dir,
         name |-> Slice(p.name, 1, Len(p.name) - Len(old)) \o suffix]

\* backup_path of backup_file
BackupPath(p) == with_suffix(p, PathSuffix(p.name) \o <<".", "b", "a", "k">>)

A_HTML == [dir |-> <<>>, name |-> <<"a", ".", "h", "t", "m", "l">>]
C_TXT  == [dir |-> <<>>, name |-> <<"c", ".", "t", "x", "t">>]
B_HTM  == [dir |-> <<"s">>, name |-> <<"b", ".", "H", "T", "M">>]

\* the files of the tree, and every path a run can create next to them
Files == {A_HTML, C_TXT, B_HTM}
Paths == Files \cup {BackupPath(p) : p \in Files}

\* the order in which os.walk (top-down) meets the paths: the root's entries,
\* then those of its subdirectory s
WalkOrder == <<A_HTML, BackupPath(A_HTML), C_TXT, BackupPath(C_TXT),
               B_HTM, BackupPath(B_HTM)>>

-----------------------------------------------------------------------------
(* __init__: the extension list.                                            *)

DefaultExtensions == << <<".", "h", "t", "m", "l">>, <<".", "h", "t", "m">> >>

\* self.extensions of __init__: the default for None or an empty list, a dot
\* put before an entry that has none, everything lower-cased
NormalizeExtensions(arg) ==
    LET given == IF arg = <<>> THEN DefaultExtensions ELSE arg
        dotted == [i \in 1..Len(given) |->
                      IF Len(given[i]) >= 1 /\ given[i][1] = "."
                      THEN given[i] ELSE <<".">> \o given[i]]
    IN  [i \in 1..Len(dotted) |-> Lower(dotted[i])]

\* x in list
InList(x, list) == \E i \in 1..Len(list) : list[i] = x

\* the test of find_target_files on one file name
IsTarget(p, exts) == InList(Lower(PathSuffix(p.name)), exts)

\* mutant: the walk keeps every file, whatever its suffix
find_target_files_anyExtension(tree, exts) ==
    SelectSeq(WalkOrder, LAMBDA p : tree[p] # NoFile)

\* find_target_files: the existing files, in walk order, whose lower-cased
\* suffix is in self.extensions
find_target_files(tree, exts) ==
    SelectSeq(WalkOrder, LAMBDA p : tree[p] # NoFile /\ IsTarget(p, exts))

-----------------------------------------------------------------------------
(* process_file: the pure part.                                             *)

\* mutant: content.replace(self.old_ip, self.new_ip, 1), the first occurrence only
NewContent_firstOnly(original_content, old, new) ==
    LET i == Find(original_content, old, 1)
    IN  IF i = 0 THEN original_content
        ELSE Slice(original_content, 1, i - 1) \o new
             \o Slice(original_content, i + Len(old), Len(original_content))

\* content after content.replace(self.old_ip, self.new_ip)
NewContent(original_content, old, new) == Replace(original_content, old, new)

\* file_replacements
FileReplacements(original_content, content, new) ==
    Count(content, new) - Count(original_content, new)

\* one record handed to self.logger
Rec(level, msg, path, n) == [level |-> level, msg |-> msg, path |-> path, n |-> n]
NoPath == [dir |-> <<>>, name |-> <<>>]

-----------------------------------------------------------------------------
(* The faults of the file system.  At most one operation of process_file    *)
(* fails for a file, because the first exception ends its processing.       *)
(*   read          open(file_path, 'r') or f.read() raises                  *)
(*   backup_read   file_path.read_bytes() of backup_file raises             *)
(*   backup_write  backup_path.write_bytes() raises after it opened, and so *)
(*                 truncated, the backup                                    *)
(*   open_write    open(file_path, 'w') raises                              *)
(*   write         f.write() raises after open(file_path, 'w') truncated    *)
(*                 the file                                                 *)

Faults == {"none", "read", "backup_read", "backup_write", "open_write", "write"}

\* mutant: backup_file logs its failure and returns
BackupRaises_swallowed(fault) == FALSE

\* backup_file re-raises what it caught and logged (line 82)
BackupRaises(fault) == fault \in {"backup_read", "backup_write"}

\* the tree after backup_file(file_path)
backup_file(tree, f, fault) ==
    CASE fault = "backup_read"  -> tree
      [] fault = "backup_write" -> [tree EXCEPT ![BackupPath(f)] = <<>>]
      [] OTHER                  -> [tree EXCEPT ![BackupPath(f)] = tree[f]]

\* the tree after `with open(file_path, 'w') as f: f.write(content)`
write_file(tree, f, content, fault) ==
    CASE fault = "open_write" -> tree
      [] fault = "write"      -> [tree EXCEPT ![f] = <<>>]
      [] OTHER                -> [tree EXCEPT ![f] = WriteText(content)]

\* mutant: the dry-run flag is not consulted
WritesToDisk_ignoresDryRun(dry) == TRUE

\* the else branch of `if self.dry_run` is taken
WritesToDisk(dry) == ~dry

\* `if self.backup` of process_file
TakesBackup(bk) == bk

\* mutant: process_file re-raises, and run() exits with status 1
PerFileErrorAborts_reraise == TRUE

\* the `except Exception` of process_file ends the call normally, so that
\* nothing reaches the `except Exception` of run() and its sys.exit(1)
PerFileErrorAborts == FALSE

\* process_file(file_path) under one fault: the tree, the counters and the
\* log records after the call, and whether its except clause was entered
process_file(tree, f, old, new, bk, dry, fault) ==
    LET original_content == ReadText(tree[f])
        content == NewContent(original_content, old, new)
        n       == FileReplacements(original_content, content, new)
        counted == [modified |-> 1, replacements |-> n]
        none    == [modified |-> 0, replacements |-> 0]
        backed  == IF TakesBackup(bk) THEN backup_file(tree, f, fault) ELSE tree
    IN  IF fault = "read"
        THEN [tree |-> tree, count |-> none, processed |-> 0, raised |-> TRUE,
              log |-> <<Rec("ERROR", "Error processing", f, 0)>>]
        ELSE IF content = original_content
        THEN [tree |-> tree, count |-> none, processed |-> 1, raised |-> FALSE,
              log |-> <<Rec("DEBUG", "No changes needed", f, 0)>>]
        ELSE IF ~WritesToDisk(dry)
        THEN [tree |-> tree, count |-> counted, processed |-> 1, raised |-> FALSE,
              log |-> <<Rec("INFO", "DRY RUN - Would modify", f, n)>>]
        ELSE IF TakesBackup(bk) /\ BackupRaises(fault)
        THEN [tree |-> backed, count |-> counted, processed |-> 0, raised |-> TRUE,
              log |-> <<Rec("ERROR", "Failed to create backup", f, 0),
                        Rec("ERROR", "Error processing", f, 0)>>]
        ELSE IF fault \in {"open_write", "write"}
        THEN [tree |-> write_file(backed, f, content, fault), count |-> counted,
              processed |-> 0, raised |-> TRUE,
              log |-> (IF TakesBackup(bk)
                       THEN <<Rec("DEBUG", "Created backup", f, 0)>> ELSE <<>>)
                      \o <<Rec("ERROR", "Error processing", f, 0)>>]
        ELSE [tree |-> write_file(backed, f, content, fault), count |-> counted,
              processed |-> 1, raised |-> FALSE,
              log |-> (IF TakesBackup(bk)
                       THEN <<Rec("DEBUG", "Created backup", f, 0)>> ELSE <<>>)
                      \o <<Rec("INFO", "Modified", f, n)>>]

-----------------------------------------------------------------------------
(* The inputs: command lines and trees.                                     *)

IP_1_1_1_1   == <<"1", ".", "1", ".", "1", ".", "1">>
IP_11_1_1_1  == <<"1", "1", ".", "1", ".", "1", ".", "1">>
IP_1_1_1_11  == <<"1", ".", "1", ".", "1", ".", "1", "1">>
IP_1_2_2_1   == <<"1", ".", "2", ".", "2", ".", "1">>
ThreeGroups  == <<"1", ".", "1", ".", "1">>
LongGroup    == <<"1", ".", "1", ".", "1", ".", "1", "1", "1", "1">>
Letter       == <<"1", ".", "1", ".", "1", ".", "x">>
NewlineAtEnd == IP_1_1_1_1 \o <<LF>>

\* the pairs <<old_ip, new_ip>> of the command lines
IPArgs ==
    { <<IP_1_1_1_1, IP_11_1_1_1>>,     \* the new IP contains the old one
      <<IP_1_1_1_11, IP_11_1_1_1>>,    \* each ends with the other's beginning
      <<IP_1_2_2_1, IP_1_1_1_1>>,      \* share no occurrence
      <<NewlineAtEnd, IP_1_2_2_1>>,
      <<IP_1_1_1_1, IP_1_1_1_1>>,
      <<ThreeGroups, IP_1_1_1_1>>,
      <<IP_1_1_1_1, LongGroup>>,
      <<Letter, IP_1_1_1_1>>,
      <<IP_1_1_1_1, <<>>>> }

DirectoryArgs == {"missing", "file", "dir"}

\* --extensions: absent, or the lists given
ExtensionArgs ==
    { <<>>,
      << <<"h", "t", "m", "l">>, <<".", "H", "T", "M">> >>,
      << <<"T", "X", "T">> >>,
      << <<".", "p", "h", "p">> >> }

\* the pieces the content of a.html is made of
Pieces(old, new) == {old, new, <<"1", ".", "1", ".">>, <<".", "1", ".", "1">>}

RECURSIVE Flatten(_)
Flatten(ss) == IF ss = <<>> THEN <<>> ELSE Head(ss) \o Flatten(Tail(ss))

\* every concatenation of at most n pieces
Contents(old, new, n) ==
    {Flatten(ps) : ps \in UNION {[1..k -> Pieces(old, new)] : k \in 0..n}}

\* a.html is drawn from the long contents in the runs that read it, and from
\* the contents of at most one piece in the others
ContentBound(dir, old, new, exts) ==
    IF validate_inputs(dir, old, new) = "ok" /\ IsTarget(A_HTML, exts)
    THEN MaxPieces ELSE 1

\* the trees under the root: a.html, a stale a.html.bak, c.txt with a CR LF
\* line end, and s/b.HTM with an undecodable byte and a CR LF line end
Trees(dir, old, new, exts) ==
    IF dir # "dir"
    THEN {[p \in Paths |-> NoFile]}
    ELSE {[p \in Paths |->
              CASE p = A_HTML             -> a
                [] p = BackupPath(A_HTML) -> <<"o", "l", "d">>
                [] p = C_TXT              -> old \o <<CR, LF>>
                [] p = B_HTM              -> <<BAD>> \o old \o <<CR, LF>>
                [] OTHER                  -> NoFile]
          : a \in Contents(old, new, ContentBound(dir, old, new, exts))}

-----------------------------------------------------------------------------
(* The run.                                                                 *)

\* LinkUpdater(...) as main() constructs it, on a tree
Construct(dir, old, new, ext, bk, dry, tree) ==
    /\ directory = dir
    /\ old_ip = old
    /\ new_ip = new
    /\ extensions = NormalizeExtensions(ext)
    /\ backup = bk
    /\ dry_run = dry
    /\ files_processed = 0
    /\ files_modified = 0
    /\ replacements_made = 0
    /\ disk = tree
    /\ target_files = <<>>
    /\ idx = 0
    /\ pc = "start"
    /\ exit_code = -1
    /\ log = <<>>
    /\ disk0 = tree
    /\ runNo = 1

Init ==
    \E dir \in DirectoryArgs, ips \in IPArgs, ext \in ExtensionArgs,
       bk \in BOOLEAN, dry \in BOOLEAN :
        \E tree \in Trees(dir, ips[1], ips[2], NormalizeExtensions(ext)) :
            Construct(dir, ips[1], ips[2], ext, bk, dry, tree)

\* run(): self.validate_inputs(), and sys.exit(1) when it raises
Validate ==
    /\ pc = "start"
    /\ LET r == validate_inputs(directory, old_ip, new_ip)
       IN  IF r = "ok"
           THEN /\ pc' = "discover"
                /\ log' = Append(log, Rec("INFO", "Starting LinkUpdater", NoPath, 0))
                /\ UNCHANGED exit_code
           ELSE /\ pc' = "exit"
                /\ exit_code' = 1
                /\ log' = Append(log, Rec("ERROR", r, NoPath, 0))
    /\ UNCHANGED <<directory, old_ip, new_ip, extensions, backup, dry_run,
                   files_processed, files_modified, replacements_made, disk,
                   target_files, idx, disk0, runNo>>

\* run(): target_files = self.find_target_files(), and the return when empty
Discover ==
    /\ pc = "discover"
    /\ LET found == find_target_files(disk, extensions)
       IN  /\ target_files' = found
           /\ IF found = <<>>
              THEN /\ pc' = "done"
                   /\ exit_code' = 0
                   /\ idx' = idx
                   /\ log' = Append(log, Rec("WARNING", "No files found", NoPath, 0))
              ELSE /\ pc' = "process"
                   /\ idx' = 1
                   /\ exit_code' = exit_code
                   /\ log' = Append(log, Rec("INFO", "Found files", NoPath, Len(found)))
    /\ UNCHANGED <<directory, old_ip, new_ip, extensions, backup, dry_run,
                   files_processed, files_modified, replacements_made, disk,
                   disk0, runNo>>

\* run(): one iteration of `for file_path in target_files`
ProcessFile ==
    /\ pc = "process"
    /\ idx <= Len(target_files)
    /\ \E fault \in Faults :
         \E r \in {process_file(disk, target_files[idx], old_ip, new_ip,
                               backup, dry_run, fault)} :
             /\ disk' = r.tree
             /\ files_processed' = files_processed + r.processed
             /\ files_modified' = files_modified + r.count.modified
             /\ replacements_made' = replacements_made + r.count.replacements
             /\ log' = log \o r.log
             /\ IF r.raised /\ PerFileErrorAborts
                THEN pc' = "exit" /\ exit_code' = 1 /\ idx' = idx
                ELSE pc' = pc /\ exit_code' = exit_code /\ idx' = idx + 1
    /\ UNCHANGED <<directory, old_ip, new_ip, extensions, backup, dry_run,
                   target_files, disk0, runNo>>

\* run(): the summary after the loop, and the normal end of the program
Summary ==
    /\ pc = "process"
    /\ idx > Len(target_files)
    /\ pc' = "done"
    /\ exit_code' = 0
    /\ log' = Append(log, Rec("INFO", "SUMMARY", NoPath, files_processed))
    /\ UNCHANGED <<directory, old_ip, new_ip, extensions, backup, dry_run,
                   files_processed, files_modified, replacements_made, disk,
                   target_files, idx, disk0, runNo>>

\* the log holds an ERROR record
LoggedError == \E i \in 1..Len(log) : log[i].level = "ERROR"

\* the same command line once more, on the tree a run without error left
NewRun ==
    /\ pc = "done"
    /\ ~LoggedError
    /\ runNo < MaxRuns
    /\ files_processed' = 0
    /\ files_modified' = 0
    /\ replacements_made' = 0
    /\ target_files' = <<>>
    /\ idx' = 0
    /\ pc' = "start"
    /\ exit_code' = -1
    /\ log' = <<>>
    /\ disk0' = disk
    /\ runNo' = runNo + 1
    /\ UNCHANGED <<directory, old_ip, new_ip, extensions, backup, dry_run, disk>>

Next == Validate \/ Discover \/ ProcessFile \/ Summary \/ NewRun

Spec == Init /\ [][Next]_vars

-----------------------------------------------------------------------------
(* Vocabulary of the properties.                                            *)

\* the positions of the target list
Discovered == 1..Len(target_files)

\* the log holds a record msg about path f
Logged(msg, f) == \E i \in 1..Len(log) : log[i].msg = msg /\ log[i].path = f

\* the number of log records msg about path f
TimesLogged(msg, f) ==
    Cardinality({i \in 1..Len(log) : log[i].msg = msg /\ log[i].path = f})

\* the records with which a call of process_file ends, one per call
ClosingMsgs == {"Error processing", "No changes needed", "DRY RUN - Would modify",
                "Modified"}

\* the paths process_file was called on, in call order
Attempted ==
    LET closing == SelectSeq(log, LAMBDA r : r.msg \in ClosingMsgs)
    IN  [i \in 1..Len(closing) |-> closing[i].path]

\* the text process_file read from f, as this invocation found the file
TextAtStart(f) == ReadText(disk0[f])

\* the text f holds after every occurrence of the old IP was replaced
ExpectedBytes(f) == WriteText(Replace(TextAtStart(f), old_ip, new_ip))

\* the arguments are among those section 4.1 rejects
Rejected ==
    \/ directory # "dir"
    \/ ~FourGroups(old_ip)
    \/ ~FourGroups(new_ip)
    \/ old_ip = new_ip

-----------------------------------------------------------------------------
(* C1.  A dry run writes nothing.                                           *)

\* C1 as stated: in a dry run every file keeps its content and no path is
\* created, and at the end files_modified is the number of discovered files
\* whose content on disk holds the old IP.
C1_DryRunCountsEveryFileWithOldIP ==
    dry_run =>
        /\ disk = disk0
        /\ pc = "done" =>
              files_modified =
                  Cardinality({i \in Discovered :
                                  Contains(disk0[target_files[i]], old_ip)})

\* C1 amended: in a dry run every file keeps its content and no path is
\* created, and at the end files_modified is the number of discovered files
\* that were read without error and whose text, as read, holds the old IP.
C1_DryRunWritesNothing ==
    dry_run =>
        /\ disk = disk0
        /\ pc = "done" =>
              files_modified =
                  Cardinality({i \in Discovered :
                                  /\ ~Logged("Error processing", target_files[i])
                                  /\ Contains(TextAtStart(target_files[i]), old_ip)})

\* a dry run that ended after it counted two files, with no backup of s/b.HTM
C1_Witness ==
    /\ dry_run /\ pc = "done" /\ runNo = 1
    /\ files_modified = 2
    /\ Logged("DRY RUN - Would modify", A_HTML)
    /\ disk[BackupPath(B_HTM)] = NoFile

-----------------------------------------------------------------------------
(* C2.  What a run with backups leaves on disk.                             *)

\* C2 as stated: after a run that is not a dry run, with backups and no
\* error, every discovered file whose content held the old IP holds its
\* original content with every occurrence replaced, its .bak holds the
\* original content, and files_modified counts each such file once.
C2_ReplacedOriginalBytes ==
    (pc = "done" /\ ~dry_run /\ backup /\ ~LoggedError) =>
        /\ \A i \in Discovered :
             LET f == target_files[i]
             IN  Contains(disk0[f], old_ip) =>
                   /\ disk[f] = Replace(disk0[f], old_ip, new_ip)
                   /\ disk[BackupPath(f)] = disk0[f]
                   /\ TimesLogged("Modified", f) = 1
        /\ files_modified =
              Cardinality({i \in Discovered :
                              Contains(disk0[target_files[i]], old_ip)})

\* C2 amended: after such a run every discovered file whose text, as read
\* (undecodable bytes dropped, CR LF and CR turned into LF), held the old IP
\* holds that text with every occurrence replaced, written back in text mode;
\* its .bak holds the original bytes; files_modified counts each such file once.
C2_ReplacedTextAndBackup ==
    (pc = "done" /\ ~dry_run /\ backup /\ ~LoggedError) =>
        /\ \A i \in Discovered :
             LET f == target_files[i]
             IN  Contains(TextAtStart(f), old_ip) =>
                   /\ disk[f] = ExpectedBytes(f)
                   /\ disk[BackupPath(f)] = disk0[f]
                   /\ TimesLogged("Modified", f) = 1
        /\ files_modified =
              Cardinality({i \in Discovered :
                              Contains(TextAtStart(target_files[i]), old_ip)})

\* a first run with backups ended without error after it replaced two
\* occurrences in a.html and wrote both backups
C2_Witness ==
    /\ pc = "done" /\ ~dry_run /\ backup /\ ~LoggedError /\ runNo = 1
    /\ Count(TextAtStart(A_HTML), old_ip) = 2
    /\ disk[A_HTML] # disk0[A_HTML]
    /\ disk[BackupPath(A_HTML)] = disk0[A_HTML]
    /\ disk[BackupPath(B_HTM)] = disk0[B_HTM]
    /\ files_modified = 2

-----------------------------------------------------------------------------
(* C3.  files_processed.                                                    *)

\* C3 as stated: at the end of a run that passed validation files_processed
\* is the number of discovered files, whether or not a file raised an error.
C3_ProcessedCountsEveryFile ==
    pc = "done" => files_processed = Len(target_files)

-----------------------------------------------------------------------------
(* C4.  An error on one file does not end the run.                          *)

\* C4: once validation passed the run never exits with status 1; process_file
\* is called on the discovered files in list order, whatever failed before,
\* and the run ends with the summary and status 0.
C4_ErrorsDoNotAbort ==
    /\ pc = "exit" => validate_inputs(directory, old_ip, new_ip) # "ok"
    /\ pc = "process" =>
          /\ Attempted = SubSeq(target_files, 1, idx - 1)
          /\ idx \in 1..(Len(target_files) + 1)
    /\ pc = "done" =>
          /\ exit_code = 0
          /\ Attempted = target_files
          /\ target_files # <<>> => log[Len(log)].msg = "SUMMARY"

\* a run that ended after an error on the first of two files, with the
\* second one modified
C4_Witness ==
    /\ pc = "done" /\ runNo = 1
    /\ Len(target_files) = 2
    /\ Logged("Error processing", target_files[1])
    /\ Logged("Modified", target_files[2])

-----------------------------------------------------------------------------
(* C5.  Idempotence.                                                        *)

\* C5 as stated: the run after a run without error that was not a dry run,
\* with the same arguments, ends with files_modified = 0.
C5_SecondRunModifiesNothing ==
    (runNo >= 2 /\ pc = "done" /\ ~dry_run) => files_modified = 0

-----------------------------------------------------------------------------
(* C6.  Files outside the extension set.                                    *)

\* C6 as stated: a file whose lower-cased suffix is not in the extension set
\* keeps the content it had when the run began.
C6_OtherFilesUnchanged ==
    \A p \in Paths :
        (disk0[p] # NoFile /\ ~IsTarget(p, extensions)) => disk[p] = disk0[p]

\* p is the .bak sibling of a discovered file
IsBackupOfDiscovered(p) == \E i \in Discovered : p = BackupPath(target_files[i])

\* C6 amended: a file whose lower-cased suffix is not in the extension set
\* keeps the content it had when the run began, unless it is the .bak sibling
\* of a discovered file (which backup_file overwrites).
C6_OtherFilesUnchangedButBackups ==
    \A p \in Paths :
        (disk0[p] # NoFile /\ ~IsTarget(p, extensions) /\ ~IsBackupOfDiscovered(p))
            => disk[p] = disk0[p]

\* a run that modified s/b.HTM, matched whatever its case, and left c.txt,
\* which holds the old IP, as it was
C6_Witness ==
    /\ pc = "done" /\ ~dry_run
    /\ Contains(disk0[C_TXT], old_ip) /\ ~IsTarget(C_TXT, extensions)
    /\ disk[C_TXT] = disk0[C_TXT]
    /\ Logged("Modified", B_HTM)
    /\ disk[B_HTM] # disk0[B_HTM]

-----------------------------------------------------------------------------
(* C7.  Validation failures.                                                *)

\* C7 as stated: with a root that is missing or no directory, an old or new
\* IP that is not four dot-separated groups of one to three digits, or equal
\* IPs, the run ends with status 1 before discovery: nothing is discovered or
\* written and the counters stay 0.
C7_RejectedArgumentsExit ==
    Rejected =>
        /\ pc \in {"start", "exit"}
        /\ pc = "exit" => exit_code = 1
        /\ target_files = <<>>
        /\ disk = disk0
        /\ files_processed = 0 /\ files_modified = 0 /\ replacements_made = 0

-----------------------------------------------------------------------------
(* C8.  The counters never decrease during the Transform phase.             *)

\* C8 as stated: no step of the loop over the target files decreases
\* files_processed, files_modified or replacements_made.
C8_CountersMonotonic ==
    [][pc = "process" =>
          /\ files_processed' >= files_processed
          /\ files_modified' >= files_modified
          /\ replacements_made' >= replacements_made]_vars

-----------------------------------------------------------------------------
(* C9.  The replacement count of a file without the new IP.                 *)

\* C9 as stated: for a file whose text held no occurrence of the new IP, the
\* count process_file reports and adds to replacements_made is the number of
\* occurrences of the old IP it replaced.
C9_CountIsExact ==
    \A i \in 1..Len(log) :
        (/\ log[i].msg \in {"Modified", "DRY RUN - Would modify"}
         /\ Count(TextAtStart(log[i].path), new_ip) = 0)
            => log[i].n = Count(TextAtStart(log[i].path), old_ip)

-----------------------------------------------------------------------------
(* C10.  Backup before overwrite.                                           *)

\* C10: in a run with backups that is not a dry run, a discovered file whose
\* content changed has a .bak holding its original bytes, the record of the
\* backup comes right before the record of the modification, and a file whose
\* backup failed keeps its content while the loop moves on to the next file.
C10_BackupBeforeOverwrite ==
    (~dry_run /\ backup) =>
        /\ \A i \in Discovered :
             LET f == target_files[i]
             IN  /\ disk[f] # disk0[f] => disk[BackupPath(f)] = disk0[f]
                 /\ Logged("Failed to create backup", f) =>
                       /\ disk[f] = disk0[f]
                       /\ pc \in {"process", "done"}
                       /\ pc = "process" => idx > i
        /\ \A j \in 1..Len(log) :
             log[j].msg = "Modified" =>
                 /\ j > 1
                 /\ log[j - 1].msg = "Created backup"
                 /\ log[j - 1].path = log[j].path

\* a run that ended after the backup of a.html failed and s/b.HTM was
\* backed up and modified
C10_Witness ==
    /\ pc = "done" /\ ~dry_run /\ backup /\ runNo = 1
    /\ Logged("Failed to create backup", A_HTML)
    /\ Contains(disk0[A_HTML], old_ip)
    /\ disk[A_HTML] = disk0[A_HTML]
    /\ Logged("Modified", B_HTM)
    /\ disk[BackupPath(B_HTM)] = disk0[B_HTM]

====
